---------------------------- MODULE Spec2Model ----------------------------
(***************************************************************************)
(* The HTML sanitizer NIF of baudrate (native/baudrate_sanitizer).         *)
(*                                                                         *)
(* The three entry points sanitize_federation, sanitize_markdown and       *)
(* strip_tags configure an ammonia Builder and call clean(html).to_string. *)
(* The model follows that pipeline: the html5ever tokenizer and tree       *)
(* builder (Tokenize, TreeBuild), ammonia's clean_dom (CleanForest) with   *)
(* the Builder fields each entry point sets, and the html5ever serializer  *)
(* (Serialize).  The only process-wide state is the OnceLock that holds    *)
(* the compiled language-class pattern.                                    *)
(*                                                                         *)
(* A string is a sequence of symbols.  A symbol is one punctuation         *)
(* character or one maximal run of ASCII letters and digits (a word), so   *)
(* that "script" is a single symbol; "!--" and "--" are the comment        *)
(* delimiters.                                                             *)
(***************************************************************************)
EXTENDS Naturals, Sequences, FiniteSets

(***************************************************************************)
(* Bounds of the model.                                                    *)
(***************************************************************************)
\* number of lexical pieces an input document is put together from
MaxChunks == 3
\* number of attributes on the element of an attribute-centred input
MaxAttrs == 1
\* number of times a caller feeds a result back into the same entry point
MaxPasses == 2
\* number of concurrently calling threads
NThreads == 2

(***************************************************************************)
(* Symbols.                                                                *)
(***************************************************************************)
\* words that start with an ASCII letter
AlphaWords ==
  { "div", "h1", "span", "p", "a", "code", "img", "script", "form", "b",
    "href", "src", "alt", "class", "title", "lang", "rel", "onclick", "id",
    "lt", "gt", "amp", "quot",
    "x", "y", "t", "c", "en", "me",
    "http", "https", "mailto", "javascript", "ftp", "HTTP", "SCRIPT",
    "language", "rust", "hashtag", "mention", "invisible", "h", "card",
    "evil", "nofollow", "noopener", "noreferrer" }

\* words that start with a digit
DigitWords == { "1" }

Words == AlphaWords \cup DigitWords

\* ASCII case folding of a word
Lower(w) ==
  CASE w = "HTTP" -> "http"
    [] w = "SCRIPT" -> "script"
    [] OTHER -> w

Whitespace == { " " }

(***************************************************************************)
(* Sequence helpers.                                                       *)
(***************************************************************************)
Last(s) == s[Len(s)]

Front(s) == SubSeq(s, 1, Len(s) - 1)

RECURSIVE Flatten(_)
Flatten(ss) == IF ss = <<>> THEN <<>> ELSE Head(ss) \o Flatten(Tail(ss))

Range(s) == { s[i] : i \in 1..Len(s) }

\* the sequences over S of length at most n
RECURSIVE SeqsUpTo(_, _)
SeqsUpTo(S, n) ==
  IF n = 0 THEN { <<>> }
  ELSE LET shorter == SeqsUpTo(S, n - 1)
       IN  shorter \cup { Append(s, x) : s \in { q \in shorter : Len(q) = n - 1 }, x \in S }


(***************************************************************************)
(* Tokens and nodes.  Both are records with the same fields, so that any   *)
(* two of them can be compared.                                            *)
(***************************************************************************)
StartTag(name, attrs) == [type |-> "start", name |-> name, attrs |-> attrs, data |-> <<>>]

EndTag(name) == [type |-> "end", name |-> name, attrs |-> <<>>, data |-> <<>>]

CharTok(chars) == [type |-> "text", name |-> "", attrs |-> <<>>, data |-> chars]

CommentTok(data) == [type |-> "comment", name |-> "", attrs |-> <<>>, data |-> data]

Attr(name, value) == [name |-> name, value |-> value]

TextNode(data) ==
  [type |-> "text", name |-> "", attrs |-> <<>>, data |-> data, children |-> <<>>]

CommentNode(data) ==
  [type |-> "comment", name |-> "", attrs |-> <<>>, data |-> data, children |-> <<>>]

ElementNode(name, attrs, children) ==
  [type |-> "element", name |-> name, attrs |-> attrs, data |-> <<>>, children |-> children]

(***************************************************************************)
(* The html5ever tokenizer, as far as the inputs of the model exercise it: *)
(* data, tag open, tag name, the attribute states, comments, character     *)
(* references and the script data state.  A tag cut off by the end of the  *)
(* input is dropped.                                                       *)
(***************************************************************************)
NamedEntities == [lt |-> "<", gt |-> ">", amp |-> "&", quot |-> "\""]

\* a tag or attribute name: folded to lower case; a name that is not one
\* word is a name no policy knows
NameOf(syms) == IF Len(syms) = 1 /\ syms[1] \in Words THEN Lower(syms[1]) ELSE "?"

\* character tokens are gathered into runs
EmitChars(out, chars) ==
  IF chars = <<>> THEN out
  ELSE IF out # <<>> /\ Last(out).type = "text"
       THEN Append(Front(out), CharTok(Last(out).data \o chars))
       ELSE Append(out, CharTok(chars))

\* the character reference at s[i] = "&": the characters it stands for and
\* the index after it.  In an attribute value a reference without ";" that
\* is followed by "=" or an alphanumeric is left as it is.
CharRef(s, i, inAttr) ==
  IF i + 1 <= Len(s) /\ s[i + 1] \in DOMAIN NamedEntities
  THEN LET more == i + 2 <= Len(s)
           semi == more /\ s[i + 2] = ";"
       IN  IF ~semi /\ inAttr /\ more /\ (s[i + 2] = "=" \/ s[i + 2] \in Words)
           THEN [chars |-> <<"&">>, next |-> i + 1]
           ELSE [chars |-> <<NamedEntities[s[i + 1]]>>,
                 next |-> IF semi THEN i + 3 ELSE i + 2]
  ELSE [chars |-> <<"&">>, next |-> i + 1]

\* a duplicate attribute is dropped: the first one wins
AddAttr(tag, an, val) ==
  LET n == NameOf(an)
  IN  IF \E k \in 1..Len(tag.attrs) : tag.attrs[k].name = n
      THEN tag
      ELSE [tag EXCEPT !.attrs = Append(@, Attr(n, val))]

RECURSIVE Data(_, _, _)
RECURSIVE TagOpen(_, _, _)
RECURSIVE EndTagOpen(_, _, _)
RECURSIVE TagName(_, _, _, _)
RECURSIVE EmitTag(_, _, _, _)
RECURSIVE BeforeAttrName(_, _, _, _)
RECURSIVE AttrName(_, _, _, _, _)
RECURSIVE AfterAttrName(_, _, _, _, _)
RECURSIVE BeforeAttrValue(_, _, _, _, _)
RECURSIVE AttrValueQuoted(_, _, _, _, _, _)
RECURSIVE AttrValueUnquoted(_, _, _, _, _, _)
RECURSIVE AfterAttrValueQuoted(_, _, _, _)
RECURSIVE SelfClosingStartTag(_, _, _, _)
RECURSIVE CommentState(_, _, _, _)
RECURSIVE BogusComment(_, _, _, _)
RECURSIVE ScriptData(_, _, _, _)

Data(s, i, out) ==
  IF i > Len(s) THEN out
  ELSE IF s[i] = "&"
       THEN LET r == CharRef(s, i, FALSE) IN Data(s, r.next, EmitChars(out, r.chars))
  ELSE IF s[i] = "<" THEN TagOpen(s, i + 1, out)
  ELSE Data(s, i + 1, EmitChars(out, <<s[i]>>))

TagOpen(s, i, out) ==
  IF i <= Len(s) /\ s[i] \in AlphaWords
  THEN TagName(s, i + 1, out, [kind |-> "start", name |-> <<s[i]>>, attrs |-> <<>>])
  ELSE IF i <= Len(s) /\ s[i] = "/" THEN EndTagOpen(s, i + 1, out)
  ELSE IF i <= Len(s) /\ s[i] = "!--"
       THEN IF i + 1 <= Len(s) /\ s[i + 1] = ">"
            THEN Data(s, i + 2, Append(out, CommentTok(<<>>)))
            ELSE CommentState(s, i + 1, out, <<>>)
  ELSE Data(s, i, EmitChars(out, <<"<">>))

EndTagOpen(s, i, out) ==
  IF i > Len(s) THEN EmitChars(out, <<"<", "/">>)
  ELSE IF s[i] \in AlphaWords
       THEN TagName(s, i + 1, out, [kind |-> "end", name |-> <<s[i]>>, attrs |-> <<>>])
  ELSE IF s[i] = ">" THEN Data(s, i + 1, out)
  ELSE BogusComment(s, i, out, <<>>)

TagName(s, i, out, tag) ==
  IF i > Len(s) THEN out
  ELSE IF s[i] \in Whitespace THEN BeforeAttrName(s, i + 1, out, tag)
  ELSE IF s[i] = "/" THEN SelfClosingStartTag(s, i + 1, out, tag)
  ELSE IF s[i] = ">" THEN EmitTag(s, i + 1, out, tag)
  ELSE TagName(s, i + 1, out, [tag EXCEPT !.name = Append(@, s[i])])

\* the tree builder switches the tokenizer to the script data state when it
\* inserts a script element
EmitTag(s, i, out, tag) ==
  LET name == NameOf(tag.name)
  IN  IF tag.kind = "end" THEN Data(s, i, Append(out, EndTag(name)))
      ELSE IF name = "script"
           THEN ScriptData(s, i, Append(out, StartTag(name, tag.attrs)), <<>>)
      ELSE Data(s, i, Append(out, StartTag(name, tag.attrs)))

BeforeAttrName(s, i, out, tag) ==
  IF i > Len(s) THEN out
  ELSE IF s[i] \in Whitespace THEN BeforeAttrName(s, i + 1, out, tag)
  ELSE IF s[i] = "/" THEN SelfClosingStartTag(s, i + 1, out, tag)
  ELSE IF s[i] = ">" THEN EmitTag(s, i + 1, out, tag)
  ELSE AttrName(s, i + 1, out, tag, <<s[i]>>)

AttrName(s, i, out, tag, an) ==
  IF i > Len(s) THEN out
  ELSE IF s[i] \in Whitespace THEN AfterAttrName(s, i + 1, out, tag, an)
  ELSE IF s[i] = "/" THEN SelfClosingStartTag(s, i + 1, out, AddAttr(tag, an, <<>>))
  ELSE IF s[i] = ">" THEN EmitTag(s, i + 1, out, AddAttr(tag, an, <<>>))
  ELSE IF s[i] = "=" THEN BeforeAttrValue(s, i + 1, out, tag, an)
  ELSE AttrName(s, i + 1, out, tag, Append(an, s[i]))

AfterAttrName(s, i, out, tag, an) ==
  IF i > Len(s) THEN out
  ELSE IF s[i] \in Whitespace THEN AfterAttrName(s, i + 1, out, tag, an)
  ELSE IF s[i] = "/" THEN SelfClosingStartTag(s, i + 1, out, AddAttr(tag, an, <<>>))
  ELSE IF s[i] = ">" THEN EmitTag(s, i + 1, out, AddAttr(tag, an, <<>>))
  ELSE IF s[i] = "=" THEN BeforeAttrValue(s, i + 1, out, tag, an)
  ELSE AttrName(s, i + 1, out, AddAttr(tag, an, <<>>), <<s[i]>>)

BeforeAttrValue(s, i, out, tag, an) ==
  IF i > Len(s) THEN out
  ELSE IF s[i] \in Whitespace THEN BeforeAttrValue(s, i + 1, out, tag, an)
  ELSE IF s[i] = "\"" THEN AttrValueQuoted(s, i + 1, out, tag, an, <<>>)
  ELSE IF s[i] = ">" THEN EmitTag(s, i + 1, out, AddAttr(tag, an, <<>>))
  ELSE AttrValueUnquoted(s, i, out, tag, an, <<>>)

AttrValueQuoted(s, i, out, tag, an, val) ==
  IF i > Len(s) THEN out
  ELSE IF s[i] = "\"" THEN AfterAttrValueQuoted(s, i + 1, out, AddAttr(tag, an, val))
  ELSE IF s[i] = "&"
       THEN LET r == CharRef(s, i, TRUE)
            IN  AttrValueQuoted(s, r.next, out, tag, an, val \o r.chars)
  ELSE AttrValueQuoted(s, i + 1, out, tag, an, Append(val, s[i]))

AttrValueUnquoted(s, i, out, tag, an, val) ==
  IF i > Len(s) THEN out
  ELSE IF s[i] \in Whitespace THEN BeforeAttrName(s, i + 1, out, AddAttr(tag, an, val))
  ELSE IF s[i] = ">" THEN EmitTag(s, i + 1, out, AddAttr(tag, an, val))
  ELSE IF s[i] = "&"
       THEN LET r == CharRef(s, i, TRUE)
            IN  AttrValueUnquoted(s, r.next, out, tag, an, val \o r.chars)
  ELSE AttrValueUnquoted(s, i + 1, out, tag, an, Append(val, s[i]))

AfterAttrValueQuoted(s, i, out, tag) ==
  IF i > Len(s) THEN out
  ELSE IF s[i] \in Whitespace THEN BeforeAttrName(s, i + 1, out, tag)
  ELSE IF s[i] = "/" THEN SelfClosingStartTag(s, i + 1, out, tag)
  ELSE IF s[i] = ">" THEN EmitTag(s, i + 1, out, tag)
  ELSE BeforeAttrName(s, i, out, tag)

SelfClosingStartTag(s, i, out, tag) ==
  IF i > Len(s) THEN out
  ELSE IF s[i] = ">" THEN EmitTag(s, i + 1, out, tag)
  ELSE BeforeAttrName(s, i, out, tag)

CommentState(s, i, out, data) ==
  IF i > Len(s) THEN Append(out, CommentTok(data))
  ELSE IF s[i] = "--" /\ i + 1 <= Len(s) /\ s[i + 1] = ">"
       THEN Data(s, i + 2, Append(out, CommentTok(data)))
  ELSE CommentState(s, i + 1, out, Append(data, s[i]))

BogusComment(s, i, out, data) ==
  IF i > Len(s) THEN Append(out, CommentTok(data))
  ELSE IF s[i] = ">" THEN Data(s, i + 1, Append(out, CommentTok(data)))
  ELSE BogusComment(s, i + 1, out, Append(data, s[i]))

\* script data: raw text, no character references, up to the appropriate
\* end tag "</script" followed by white space, "/" or ">"
ScriptData(s, i, out, data) ==
  IF i > Len(s) THEN EmitChars(out, data)
  ELSE IF /\ s[i] = "<"
          /\ i + 3 <= Len(s)
          /\ s[i + 1] = "/"
          /\ s[i + 2] \in AlphaWords
          /\ Lower(s[i + 2]) = "script"
          /\ s[i + 3] \in Whitespace \cup { "/", ">" }
       THEN TagName(s, i + 3, EmitChars(out, data),
                    [kind |-> "end", name |-> <<s[i + 2]>>, attrs |-> <<>>])
  ELSE ScriptData(s, i + 1, out, Append(data, s[i]))

Tokenize(s) == Data(s, 1, <<>>)


(***************************************************************************)
(* The html5ever tree builder for a fragment (ammonia parses the input as  *)
(* the content of a div): the "in body" rules for the elements of the      *)
(* model.  The stack of open elements is a sequence of frames, the root    *)
(* first; a frame gathers the children of its element, and popping a frame *)
(* appends the finished element to the frame below.  Formatting elements   *)
(* (a, code) are inserted like any other element: the inputs of the model  *)
(* never leave one open across another element's end, nor nest an a in an  *)
(* a, so the adoption agency algorithm has nothing to do.                  *)
(***************************************************************************)
Frame(name, attrs) == [name |-> name, attrs |-> attrs, kids |-> <<>>]

Headings == { "h1", "h2", "h3", "h4", "h5", "h6" }

\* start tags that close an open p element
ClosesP ==
  { "address", "article", "aside", "blockquote", "center", "details", "dialog",
    "dir", "div", "dl", "fieldset", "figcaption", "figure", "footer", "header",
    "hgroup", "main", "menu", "nav", "ol", "p", "section", "summary", "ul" }

VoidElements ==
  { "area", "base", "basefont", "bgsound", "br", "col", "embed", "frame", "hr",
    "img", "input", "keygen", "link", "meta", "param", "source", "track", "wbr" }

ImpliedEndTags == { "dd", "dt", "li", "optgroup", "option", "p", "rb", "rp", "rt", "rtc" }

\* the special elements, at which the search of "any other end tag" stops
SpecialElements ==
  ClosesP \cup Headings \cup VoidElements \cup
  { "#root", "form", "script", "style", "iframe", "object", "textarea", "table",
    "td", "th", "tr", "tbody", "thead", "li", "pre", "button" }

OnStack(stack, names) == \E k \in 2..Len(stack) : stack[k].name \in names

AppendNode(stack, node) ==
  [stack EXCEPT ![Len(stack)].kids = Append(@, node)]

\* text is appended to a text node that ends the current node's children
AppendText(stack, chars) ==
  LET kids == Last(stack).kids
  IN  IF kids # <<>> /\ Last(kids).type = "text"
      THEN [stack EXCEPT ![Len(stack)].kids =
              Append(Front(kids), TextNode(Last(kids).data \o chars))]
      ELSE AppendNode(stack, TextNode(chars))

Pop(stack) ==
  LET top == Last(stack)
  IN  AppendNode(Front(stack), ElementNode(top.name, top.attrs, top.kids))

\* pop up to and including the topmost element with a name in names
RECURSIVE PopUntil(_, _)
PopUntil(stack, names) ==
  IF Len(stack) <= 1 THEN stack
  ELSE IF Last(stack).name \in names THEN Pop(stack)
  ELSE PopUntil(Pop(stack), names)

RECURSIVE GenerateImpliedEndTags(_, _)
GenerateImpliedEndTags(stack, except) ==
  IF Len(stack) > 1 /\ Last(stack).name \in ImpliedEndTags \ except
  THEN GenerateImpliedEndTags(Pop(stack), except)
  ELSE stack

ClosePElement(stack) ==
  IF OnStack(stack, { "p" })
  THEN PopUntil(GenerateImpliedEndTags(stack, { "p" }), { "p" })
  ELSE stack

\* "any other end tag": from the current node down, the first element of
\* that name is closed, unless a special element comes first
RECURSIVE AnyOtherEndTag(_, _, _)
AnyOtherEndTag(stack, k, name) ==
  IF k <= 1 THEN stack
  ELSE IF stack[k].name = name
       THEN PopUntil(GenerateImpliedEndTags(stack, { name }), { name })
  ELSE IF stack[k].name \in SpecialElements THEN stack
  ELSE AnyOtherEndTag(stack, k - 1, name)

\* the tree builder's state: the stack and the form element pointer
StartTagInBody(st, tok) ==
  LET name == tok.name
      push(stack) == Append(stack, Frame(name, tok.attrs))
  IN  IF name \in Headings
      THEN LET closed == ClosePElement(st.stack)
               popped == IF Len(closed) > 1 /\ Last(closed).name \in Headings
                         THEN Pop(closed) ELSE closed
           IN  [st EXCEPT !.stack = push(popped)]
      ELSE IF name = "form"
           THEN IF st.form THEN st
                ELSE [stack |-> push(ClosePElement(st.stack)), form |-> TRUE]
      ELSE IF name \in ClosesP
           THEN [st EXCEPT !.stack = push(ClosePElement(st.stack))]
      ELSE IF name \in VoidElements
           THEN [st EXCEPT !.stack = Pop(push(st.stack))]
      ELSE [st EXCEPT !.stack = push(st.stack)]

EndTagInBody(st, tok) ==
  LET name == tok.name
      stack == st.stack
  IN  IF name \in Headings
      THEN IF OnStack(stack, Headings)
           THEN [st EXCEPT !.stack = PopUntil(GenerateImpliedEndTags(stack, {}), Headings)]
           ELSE st
      ELSE IF name = "p"
           THEN IF OnStack(stack, { "p" })
                THEN [st EXCEPT !.stack = ClosePElement(stack)]
                ELSE [st EXCEPT !.stack = Pop(Append(stack, Frame("p", <<>>)))]
      ELSE IF name \in ClosesP
           THEN IF OnStack(stack, { name })
                THEN [st EXCEPT !.stack = PopUntil(GenerateImpliedEndTags(stack, {}), { name })]
                ELSE st
      ELSE [st EXCEPT !.stack = AnyOtherEndTag(stack, Len(stack), name)]

ProcessToken(st, tok) ==
  IF tok.type = "text" THEN [st EXCEPT !.stack = AppendText(@, tok.data)]
  ELSE IF tok.type = "comment" THEN [st EXCEPT !.stack = AppendNode(@, CommentNode(tok.data))]
  ELSE IF tok.type = "start" THEN StartTagInBody(st, tok)
  ELSE EndTagInBody(st, tok)

RECURSIVE ProcessTokens(_, _, _)
ProcessTokens(st, toks, k) ==
  IF k > Len(toks) THEN st ELSE ProcessTokens(ProcessToken(st, toks[k]), toks, k + 1)

RECURSIVE PopAll(_)
PopAll(stack) == IF Len(stack) <= 1 THEN stack ELSE PopAll(Pop(stack))

\* the children of the fragment's root
TreeBuild(toks) ==
  LET st0 == [stack |-> << Frame("#root", <<>>) >>, form |-> FALSE]
  IN  PopAll(ProcessTokens(st0, toks, 1).stack)[1].kids

\* Document::from(html): the parsed fragment
Parse(s) == TreeBuild(Tokenize(s))


(***************************************************************************)
(* The html5ever serializer behind Document::to_string.                    *)
(***************************************************************************)
\* elements whose text is written without escaping
RawTextElements ==
  { "style", "script", "xmp", "iframe", "noembed", "noframes", "plaintext" }

\* EscapeTextChar without the case for "<"
EscapeTextCharKeepsLt(c) ==
  CASE c = "&" -> <<"&", "amp", ";">>
    [] c = ">" -> <<"&", "gt", ";">>
    [] OTHER -> <<c>>

EscapeTextChar(c) ==
  CASE c = "&" -> <<"&", "amp", ";">>
    [] c = "<" -> <<"&", "lt", ";">>
    [] c = ">" -> <<"&", "gt", ";">>
    [] OTHER -> <<c>>

EscapeAttrChar(c) ==
  CASE c = "&" -> <<"&", "amp", ";">>
    [] c = "\"" -> <<"&", "quot", ";">>
    [] OTHER -> <<c>>

EscapeText(data) == Flatten([i \in 1..Len(data) |-> EscapeTextChar(data[i])])

EscapeAttr(data) == Flatten([i \in 1..Len(data) |-> EscapeAttrChar(data[i])])

SerializeAttrs(attrs) ==
  Flatten([i \in 1..Len(attrs) |->
             <<" ", attrs[i].name, "=", "\"">> \o EscapeAttr(attrs[i].value) \o <<"\"">>])

RECURSIVE SerializeNode(_, _)
RECURSIVE SerializeChildren(_, _)

SerializeNode(n, parent) ==
  IF n.type = "text"
  THEN IF parent \in RawTextElements THEN n.data ELSE EscapeText(n.data)
  ELSE IF n.type = "comment" THEN <<"<", "!--">> \o n.data \o <<"--", ">">>
  ELSE <<"<", n.name>> \o SerializeAttrs(n.attrs) \o <<">">> \o
       (IF n.name \in VoidElements THEN <<>>
        ELSE SerializeChildren(n.children, n.name) \o <<"<", "/", n.name, ">">>)

SerializeChildren(forest, parent) ==
  Flatten([i \in 1..Len(forest) |-> SerializeNode(forest[i], parent)])

Serialize(forest) == SerializeChildren(forest, "#root")

(***************************************************************************)
(* Url::parse of the url crate, as ammonia uses it: the scheme of an       *)
(* absolute URL, or that the value is relative, or that it is invalid.     *)
(***************************************************************************)
SchemeChars == Words \cup { "+", "-", "." }

\* schemes that need a host
SpecialSchemes == { "http", "https", "ftp", "ws", "wss" }

RECURSIVE TrimLeft(_)
TrimLeft(v) == IF v # <<>> /\ Head(v) \in Whitespace THEN TrimLeft(Tail(v)) ELSE v

RECURSIVE TrimRight(_)
TrimRight(v) == IF v # <<>> /\ Last(v) \in Whitespace THEN TrimRight(Front(v)) ELSE v

RECURSIVE SkipSlashes(_)
SkipSlashes(v) == IF v # <<>> /\ Head(v) \in { "/", "\\" } THEN SkipSlashes(Tail(v)) ELSE v

UrlParse(value) ==
  LET v == TrimRight(TrimLeft(value))
      colons == { i \in 1..Len(v) : v[i] = ":" }
      c == IF colons = {} THEN 0 ELSE CHOOSE i \in colons : \A j \in colons : i <= j
      hasScheme == /\ c > 1
                   /\ v[1] \in AlphaWords
                   /\ \A i \in 1..(c - 1) : v[i] \in SchemeChars
      scheme == IF c = 2 THEN Lower(v[1]) ELSE "?"
      rest == SkipSlashes(SubSeq(v, c + 1, Len(v)))
  IN  IF ~hasScheme THEN [result |-> "RelativeUrlWithoutBase", scheme |-> ""]
      ELSE IF scheme \in SpecialSchemes /\ (rest = <<>> \/ Head(rest) \in { "?", "#" })
           THEN [result |-> "EmptyHost", scheme |-> ""]
      ELSE [result |-> "Ok", scheme |-> scheme]

(***************************************************************************)
(* lib.rs: the constants, the pattern and the tag sets.                    *)
(***************************************************************************)
SAFE_SPAN_CLASSES ==
  { <<"h", "-", "card">>, <<"hashtag">>, <<"mention">>, <<"invisible">> }

\* Regex::new(r"^language-[a-zA-Z0-9_+\-]+$"): the literal prefix and the
\* symbols the character class admits
LanguageClassPattern ==
  [compiled |-> TRUE, prefix |-> <<"language", "-">>, class |-> Words \cup { "_", "+", "-" }]

\* the content of the OnceLock before its first use
NoPattern == [compiled |-> FALSE, prefix |-> <<>>, class |-> {}]

\* IsMatch of the pattern without its "$" anchor and "+" repetition
IsMatchPrefix(re, value) ==
  /\ re.compiled
  /\ Len(value) >= Len(re.prefix)
  /\ SubSeq(value, 1, Len(re.prefix)) = re.prefix

\* Regex::is_match of an anchored pattern
IsMatch(re, value) ==
  /\ re.compiled
  /\ Len(value) > Len(re.prefix)
  /\ SubSeq(value, 1, Len(re.prefix)) = re.prefix
  /\ \A i \in (Len(re.prefix) + 1)..Len(value) : value[i] \in re.class

\* federation_tags with the wrapper div let through
federation_tags_with_div ==
  { "p", "br", "hr", "h1", "h2", "h3", "h4", "h5", "h6", "em", "strong", "del", "code",
    "pre", "blockquote", "ul", "ol", "li", "a", "span", "div" }

federation_tags ==
  { "p", "br", "hr", "h1", "h2", "h3", "h4", "h5", "h6", "em", "strong", "del", "code",
    "pre", "blockquote", "ul", "ol", "li", "a", "span" }

\* the content tags of Builder::new(), which stay when clean_content_tags
\* is not called
clean_content_tags_default == { "script", "style" }

clean_content_tags ==
  { "script", "style", "iframe", "object", "embed", "form", "input", "textarea", "svg",
    "math" }

markdown_tags == federation_tags \cup { "table", "thead", "tbody", "tr", "th", "td", "img" }

(***************************************************************************)
(* str::split_whitespace and join(" ").                                    *)
(***************************************************************************)
RECURSIVE SplitWhitespace(_, _, _)
SplitWhitespace(v, i, cur) ==
  IF i > Len(v) THEN (IF cur = <<>> THEN <<>> ELSE <<cur>>)
  ELSE IF v[i] \in Whitespace
       THEN (IF cur = <<>> THEN <<>> ELSE <<cur>>) \o SplitWhitespace(v, i + 1, <<>>)
  ELSE SplitWhitespace(v, i + 1, Append(cur, v[i]))

split_whitespace(v) == SplitWhitespace(v, 1, <<>>)

RECURSIVE join(_, _)
join(toks, sep) ==
  IF toks = <<>> THEN <<>>
  ELSE IF Len(toks) = 1 THEN toks[1]
  ELSE toks[1] \o sep \o join(Tail(toks), sep)

Filter(toks, S) == SelectSeq(toks, LAMBDA c : c \in S)

(***************************************************************************)
(* The attribute filters the two profiles install.  None is the dropped    *)
(* attribute.                                                              *)
(***************************************************************************)
None == [some |-> FALSE, value |-> <<>>]

Some(v) == [some |-> TRUE, value |-> v]

\* the span filter that keeps the whole value once one token is safe
federation_attribute_filter_whole(element, attribute, value) ==
  IF element = "span" /\ attribute = "class"
  THEN IF Filter(split_whitespace(value), SAFE_SPAN_CLASSES) = <<>>
       THEN None ELSE Some(value)
  ELSE Some(value)

federation_attribute_filter(element, attribute, value) ==
  IF element = "span" /\ attribute = "class"
  THEN LET filtered == Filter(split_whitespace(value), SAFE_SPAN_CLASSES)
       IN  IF filtered = <<>> THEN None ELSE Some(join(filtered, <<" ">>))
  ELSE Some(value)

markdown_attribute_filter(re, element, attribute, value) ==
  IF element = "code" /\ attribute = "class"
  THEN IF IsMatch(re, value) THEN Some(value) ELSE None
  ELSE Some(value)


(***************************************************************************)
(* The Builder each entry point configures.  A field the entry point does  *)
(* not set keeps the value Builder::new() (or Builder::empty()) gives it:  *)
(* generic_attributes is {lang, title} after Builder::new().  link_rel     *)
(* <<>> is no link_rel.                                                    *)
(***************************************************************************)
\* the Federation Builder without .url_relative(UrlRelative::Deny)
FederationBuilderPassThrough ==
  [ tags               |-> federation_tags,
    tag_attributes     |-> [a |-> { "href" }, span |-> { "class" }],
    generic_attributes |-> { "lang", "title" },
    url_schemes        |-> { "http", "https" },
    url_relative       |-> "PassThrough",
    link_rel           |-> <<"nofollow", " ", "noopener", " ", "noreferrer">>,
    clean_content_tags |-> clean_content_tags,
    strip_comments     |-> TRUE,
    attribute_filter   |-> "federation" ]

FederationBuilder ==
  [ tags               |-> federation_tags,
    tag_attributes     |-> [a |-> { "href" }, span |-> { "class" }],
    generic_attributes |-> { "lang", "title" },
    url_schemes        |-> { "http", "https" },
    url_relative       |-> "Deny",
    link_rel           |-> <<"nofollow", " ", "noopener", " ", "noreferrer">>,
    clean_content_tags |-> clean_content_tags,
    strip_comments     |-> TRUE,
    attribute_filter   |-> "federation" ]

MarkdownBuilder ==
  [ tags               |-> markdown_tags,
    tag_attributes     |-> [a |-> { "href" }, code |-> { "class" }, img |-> { "src", "alt" }],
    generic_attributes |-> { "lang", "title" },
    url_schemes        |-> { "http", "https", "mailto" },
    url_relative       |-> "PassThrough",
    link_rel           |-> <<"nofollow", " ", "noopener">>,
    clean_content_tags |-> clean_content_tags,
    strip_comments     |-> TRUE,
    attribute_filter   |-> "markdown" ]

StripBuilder ==
  [ tags               |-> {},
    tag_attributes     |-> <<>>,
    generic_attributes |-> {},
    url_schemes        |-> {},
    url_relative       |-> "PassThrough",
    link_rel           |-> <<>>,
    clean_content_tags |-> {},
    strip_comments     |-> TRUE,
    attribute_filter   |-> "none" ]

(***************************************************************************)
(* ammonia's Builder::clean: clean_dom over the parsed fragment.           *)
(***************************************************************************)
TagAttributes(b, tag) ==
  IF tag \in DOMAIN b.tag_attributes THEN b.tag_attributes[tag] ELSE {}

is_url_attr(element, attr) ==
  \/ attr = "href"
  \/ attr = "src"
  \/ (element = "form" /\ attr = "action")
  \/ (element = "object" /\ attr = "data")
  \/ (element \in { "button", "input" } /\ attr = "formaction")
  \/ (element = "a" /\ attr = "ping")
  \/ (element = "video" /\ attr = "poster")

\* the URL check of clean_child
UrlAllowed(b, value) ==
  LET url == UrlParse(value)
  IN  IF url.result = "Ok" THEN url.scheme \in b.url_schemes
      ELSE IF url.result = "RelativeUrlWithoutBase" THEN b.url_relative # "Deny"
      ELSE FALSE

\* the allowlist check of clean_child
Whitelisted(b, element, attr) ==
  attr \in b.generic_attributes \/ attr \in TagAttributes(b, element)

\* clean_child's attrs.retain(..): the attributes the allowlist and the URL
\* policy keep
RetainAttr(b, element, attr) ==
  /\ Whitelisted(b, element, attr.name)
  /\ is_url_attr(element, attr.name) => UrlAllowed(b, attr.value)

\* the profile's attribute_filter closure
ApplyAttributeFilter(b, re, element, attribute, value) ==
  IF b.attribute_filter = "federation"
  THEN federation_attribute_filter(element, attribute, value)
  ELSE IF b.attribute_filter = "markdown"
       THEN markdown_attribute_filter(re, element, attribute, value)
  ELSE Some(value)

\* Vec::swap_remove
SwapRemove(v, i) == IF i = Len(v) THEN Front(v) ELSE [Front(v) EXCEPT ![i] = Last(v)]

\* the dropped attributes are removed from the highest index down
RECURSIVE DropAttrs(_, _)
DropAttrs(attrs, drop) ==
  IF drop = {} THEN attrs
  ELSE LET i == CHOOSE k \in drop : \A j \in drop : j <= k
       IN  DropAttrs(SwapRemove(attrs, i), drop \ { i })

\* adjust_node_attributes: rel is pushed on an a element, then the
\* attribute filter sees every attribute that is left
AdjustNodeAttributes(b, re, element, attrs) ==
  LET withRel == IF b.link_rel # <<>> /\ element = "a"
                 THEN Append(attrs, Attr("rel", b.link_rel))
                 ELSE attrs
      verdict == [i \in 1..Len(withRel) |->
                    ApplyAttributeFilter(b, re, element, withRel[i].name, withRel[i].value)]
      rewritten == [i \in 1..Len(withRel) |->
                      IF verdict[i].some THEN Attr(withRel[i].name, verdict[i].value)
                      ELSE withRel[i]]
  IN  IF b.attribute_filter = "none" THEN withRel
      ELSE DropAttrs(rewritten, { i \in 1..Len(withRel) : ~verdict[i].some })

\* CleanAttrs with the filter consulted first and authoritative: no
\* allowlist or URL check for an attribute the filter returns a value for
CleanAttrsFilterFirst(b, re, element, attrs) ==
  IF b.attribute_filter = "none"
  THEN AdjustNodeAttributes(b, re, element,
                            SelectSeq(attrs, LAMBDA at : RetainAttr(b, element, at)))
  ELSE AdjustNodeAttributes(b, re, element, attrs)

\* the attributes of an element that is kept
CleanAttrs(b, re, element, attrs) ==
  AdjustNodeAttributes(b, re, element,
                       SelectSeq(attrs, LAMBDA at : RetainAttr(b, element, at)))

RECURSIVE CleanForest(_, _, _)
RECURSIVE CleanNode(_, _, _)

\* one node of clean_dom's walk: a content tag goes with its subtree, a node
\* clean_child passes is kept, any other node is replaced by its children
CleanNode(b, re, n) ==
  IF n.type = "element" /\ n.name \in b.clean_content_tags THEN <<>>
  ELSE IF n.type = "text" THEN <<n>>
  ELSE IF n.type = "comment" THEN (IF b.strip_comments THEN <<>> ELSE <<n>>)
  ELSE IF n.name \in b.tags
       THEN << ElementNode(n.name, CleanAttrs(b, re, n.name, n.attrs),
                           CleanForest(b, re, n.children)) >>
  ELSE CleanForest(b, re, n.children)

CleanForest(b, re, forest) ==
  Flatten([i \in 1..Len(forest) |-> CleanNode(b, re, forest[i])])

\* Builder::clean(html).to_string()
Clean(b, re, html) == Serialize(CleanForest(b, re, Parse(html)))

(***************************************************************************)
(* The three entry points.  sanitize_markdown reads the pattern from the   *)
(* OnceLock before it builds its Builder; re is what it read.              *)
(***************************************************************************)
sanitize_federation(html) == Clean(FederationBuilder, NoPattern, html)

sanitize_markdown(re, html) == Clean(MarkdownBuilder, re, html)

strip_tags(html) == Clean(StripBuilder, NoPattern, html)


(***************************************************************************)
(* The inputs of the model.  A structure-centred input is put together     *)
(* from lexical pieces: start and end tags of an allowed heading, an       *)
(* allowed inline element, a disallowed wrapper, two content tags, text,   *)
(* a raw "<", a character reference and a comment.  An attribute-centred   *)
(* input is one element with attributes around a text.                     *)
(***************************************************************************)
StructChunks ==
  { <<"<", "div", ">">>, <<"<", "h1", ">">>, <<"<", "span", ">">>,
    <<"<", "script", ">">>, <<"<", "/", "script", ">">>, <<"<", "form", ">">>,
    <<"x">>, <<"<">>, <<"&", "lt", ";">>, <<"<", "!--", "c", "--", ">">> }

StructInputs == { Flatten(cs) : cs \in SeqsUpTo(StructChunks, MaxChunks) }

UrlValues ==
  { <<"http", ":", "/", "/", "x">>, <<"https", ":", "/", "/", "x">>,
    <<"HTTP", ":", "/", "/", "x">>, <<" ", "http", ":", "/", "/", "x">>,
    <<"http", ":">>, <<"mailto", ":", "x">>, <<"ftp", ":", "/", "/", "x">>,
    <<"javascript", ":", "x">>, <<"/", "x">>, <<"x">>, <<"1", ":", "x">> }

ClassValues ==
  { <<"hashtag">>, <<"hashtag", " ", "evil">>, <<"evil">>,
    <<" ", "mention", " ", " ", "h", "-", "card", " ">>,
    <<"hashtag", " ", "hashtag">>,
    <<"language", "-", "rust">>, <<"language", "-">>, <<"lang", "-", "rust">>,
    <<"language", "-", "c", "+", "+">>, <<"language", "-", "x", "_", "1">>,
    <<"language", "-", "rust", " ", "x">>, <<" ", "language", "-", "rust">>,
    <<"language", "-", "x", ".", "y">> }

\* an attribute as it is written in the input: the name and the source
\* text of the value
AttrChoices ==
  { <<"href", v>> : v \in UrlValues } \cup
  { <<"src", v>> : v \in { <<"https", ":", "/", "/", "x">>, <<"javascript", ":", "x">>, <<"/", "x">> } } \cup
  { <<"class", v>> : v \in ClassValues } \cup
  { <<"title", <<"t">> >>, <<"title", <<"<", "b", ">", "&", "quot", ";">> >>,
    <<"lang", <<"en">> >>, <<"alt", <<"x">> >>, <<"rel", <<"me">> >>,
    <<"onclick", <<"x">> >>, <<"id", <<"x">> >> }

AttrTags == { "a", "span", "code", "img" }

WriteAttr(ch) == <<" ", ch[1], "=", "\"">> \o ch[2] \o <<"\"">>

WriteElement(tag, chs) ==
  <<"<", tag>> \o Flatten([i \in 1..Len(chs) |-> WriteAttr(chs[i])]) \o
  <<">", "x", "<", "/", tag, ">">>

AttrInputs ==
  { WriteElement(tag, chs) : tag \in AttrTags, chs \in SeqsUpTo(AttrChoices, MaxAttrs) }

Inputs == StructInputs \cup AttrInputs

\* the inputs of the concurrent callers
ConcInputs ==
  { <<"<", "code", " ", "class", "=", "language", "-", "rust", ">", "x">>,
    <<"<", "code", " ", "class", "=", "evil", ">", "<">>,
    <<"<", "div", ">", "<", "script", ">", "x">> }

EntryPoints == { "sanitize_federation", "sanitize_markdown", "strip_tags" }

Threads == 1..NThreads

(***************************************************************************)
(* The state: the OnceLock LANGUAGE_CLASS_RE, and for each calling thread  *)
(* where it is in its call, the entry point, the argument and the result.  *)
(* inits counts the runs of the OnceLock's initialising closure.           *)
(***************************************************************************)
VARIABLES LANGUAGE_CLASS_RE, inits, pc, fn, html, ret, pass

vars == <<LANGUAGE_CLASS_RE, inits, pc, fn, html, ret, pass>>

Init ==
  /\ LANGUAGE_CLASS_RE = [state |-> "uninit", value |-> NoPattern]
  /\ inits = 0
  /\ pc = [t \in Threads |-> "idle"]
  /\ fn = [t \in Threads |-> "none"]
  /\ html = [t \in Threads |-> <<>>]
  /\ ret = [t \in Threads |-> <<>>]
  /\ pass = [t \in Threads |-> 0]

\* where a call of entry point f starts: sanitize_markdown first fetches
\* the pattern
Entry(f) == IF f = "sanitize_markdown" THEN "get_re" ELSE "clean"

\* a caller invokes entry point f on s
Invoke(t, f, s) ==
  /\ pc[t] = "idle"
  /\ pc' = [pc EXCEPT ![t] = Entry(f)]
  /\ fn' = [fn EXCEPT ![t] = f]
  /\ html' = [html EXCEPT ![t] = s]
  /\ ret' = [ret EXCEPT ![t] = <<>>]
  /\ pass' = [pass EXCEPT ![t] = 1]
  /\ UNCHANGED <<LANGUAGE_CLASS_RE, inits>>

\* get_or_init without the wait: a caller that finds the closure running
\* runs it too
GetOrInitRacing(t) ==
  /\ pc[t] = "get_re"
  /\ IF LANGUAGE_CLASS_RE.state # "init"
     THEN /\ LANGUAGE_CLASS_RE' = [LANGUAGE_CLASS_RE EXCEPT !.state = "running"]
          /\ pc' = [pc EXCEPT ![t] = "init_re"]
     ELSE /\ pc' = [pc EXCEPT ![t] = "clean"]
          /\ UNCHANGED LANGUAGE_CLASS_RE
  /\ UNCHANGED <<inits, fn, html, ret, pass>>

\* OnceLock::get_or_init: the first caller starts the initialising closure,
\* a caller that finds the cell initialised goes on, and a caller that finds
\* the closure running waits
GetOrInit(t) ==
  /\ pc[t] = "get_re"
  /\ LANGUAGE_CLASS_RE.state # "running"
  /\ IF LANGUAGE_CLASS_RE.state = "uninit"
     THEN /\ LANGUAGE_CLASS_RE' = [LANGUAGE_CLASS_RE EXCEPT !.state = "running"]
          /\ pc' = [pc EXCEPT ![t] = "init_re"]
     ELSE /\ pc' = [pc EXCEPT ![t] = "clean"]
          /\ UNCHANGED LANGUAGE_CLASS_RE
  /\ UNCHANGED <<inits, fn, html, ret, pass>>

\* the closure: Regex::new(..).unwrap(), stored in the cell
language_class_regex(t) ==
  /\ pc[t] = "init_re"
  /\ LANGUAGE_CLASS_RE' = [state |-> "init", value |-> LanguageClassPattern]
  /\ inits' = inits + 1
  /\ pc' = [pc EXCEPT ![t] = "clean"]
  /\ UNCHANGED <<fn, html, ret, pass>>

\* what entry point f returns for s when the cell holds re
Result(f, re, s) ==
  IF f = "sanitize_federation" THEN sanitize_federation(s)
  ELSE IF f = "sanitize_markdown" THEN sanitize_markdown(re, s)
  ELSE strip_tags(s)

\* Builder .. .clean(html).to_string(), and the return
CleanCall(t) ==
  /\ pc[t] = "clean"
  /\ ret' = [ret EXCEPT ![t] = Result(fn[t], LANGUAGE_CLASS_RE.value, html[t])]
  /\ pc' = [pc EXCEPT ![t] = "done"]
  /\ UNCHANGED <<LANGUAGE_CLASS_RE, inits, fn, html, pass>>

\* the caller passes the result to the same entry point again
Again(t) ==
  /\ pc[t] = "done"
  /\ pass[t] < MaxPasses
  /\ html' = [html EXCEPT ![t] = ret[t]]
  /\ pass' = [pass EXCEPT ![t] = @ + 1]
  /\ pc' = [pc EXCEPT ![t] = Entry(fn[t])]
  /\ UNCHANGED <<LANGUAGE_CLASS_RE, inits, fn, ret>>

\* the caller is done with the result
Return(t) ==
  /\ pc[t] = "done"
  /\ pc' = [pc EXCEPT ![t] = "idle"]
  /\ fn' = [fn EXCEPT ![t] = "none"]
  /\ html' = [html EXCEPT ![t] = <<>>]
  /\ ret' = [ret EXCEPT ![t] = <<>>]
  /\ pass' = [pass EXCEPT ![t] = 0]
  /\ UNCHANGED <<LANGUAGE_CLASS_RE, inits>>

\* one caller, every input
Next ==
  \/ \E f \in EntryPoints, s \in Inputs : Invoke(1, f, s)
  \/ GetOrInit(1)
  \/ language_class_regex(1)
  \/ CleanCall(1)
  \/ Again(1)
  \/ Return(1)

Spec == Init /\ [][Next]_vars

\* concurrent callers
NextConc ==
  \/ \E t \in Threads, f \in EntryPoints, s \in ConcInputs : Invoke(t, f, s)
  \/ \E t \in Threads : GetOrInit(t)
  \/ \E t \in Threads : language_class_regex(t)
  \/ \E t \in Threads : CleanCall(t)
  \/ \E t \in Threads : Return(t)

SpecConc == Init /\ [][NextConc]_vars


(***************************************************************************)
(* What the properties below say about a call: the tokens of the returned  *)
(* string, the elements of the input that a profile keeps, and the text    *)
(* inside and outside the content tags.  The tag and attribute sets are    *)
(* the ones the specification names.                                       *)
(***************************************************************************)
ClaimedContentTags ==
  { "script", "style", "iframe", "object", "embed", "form", "input", "textarea", "svg",
    "math" }

ClaimedFederationTags ==
  { "p", "br", "hr", "h1", "h2", "h3", "h4", "h5", "h6", "em", "strong", "del", "code",
    "pre", "blockquote", "ul", "ol", "li", "a", "span" }

ClaimedMarkdownTags ==
  ClaimedFederationTags \cup { "table", "thead", "tbody", "tr", "th", "td", "img" }

Done(t) == pc[t] = "done"

OutTokens(t) == Tokenize(ret[t])

StartTags(toks) == SelectSeq(toks, LAMBDA k : k.type = "start")

TextOf(toks) ==
  LET texts == SelectSeq(toks, LAMBDA k : k.type = "text")
  IN  Flatten([i \in 1..Len(texts) |-> texts[i].data])

HasAttr(attrs, n) == \E i \in 1..Len(attrs) : attrs[i].name = n

AttrValue(attrs, n) == attrs[CHOOSE i \in 1..Len(attrs) : attrs[i].name = n].value

\* the elements of a forest, in document order, that have a tag in tags and
\* are not inside an element with a tag in content
RECURSIVE Survivors(_, _, _)
Survivors(forest, tags, content) ==
  Flatten([i \in 1..Len(forest) |->
    LET n == forest[i]
    IN  IF n.type # "element" \/ n.name \in content THEN <<>>
        ELSE (IF n.name \in tags THEN <<n>> ELSE <<>>) \o
             Survivors(n.children, tags, content)])

\* the symbols of the text inside (want) or outside (~want) the elements
\* with a tag in content
RECURSIVE TextSyms(_, _, _, _)
TextSyms(forest, content, want, inside) ==
  UNION { LET n == forest[i]
          IN  IF n.type = "text" THEN (IF inside = want THEN Range(n.data) ELSE {})
              ELSE IF n.type = "element"
                   THEN TextSyms(n.children, content, want, inside \/ n.name \in content)
              ELSE {}
          : i \in 1..Len(forest) }

\* all text of a forest, in document order
RECURSIVE AllText(_)
AllText(forest) ==
  Flatten([i \in 1..Len(forest) |->
    IF forest[i].type = "text" THEN forest[i].data
    ELSE IF forest[i].type = "element" THEN AllText(forest[i].children)
    ELSE <<>>])

\* the elements of a forest in document order, without their children
RECURSIVE AllElements(_)
AllElements(forest) ==
  Flatten([i \in 1..Len(forest) |->
    IF forest[i].type = "element"
    THEN <<StartTag(forest[i].name, forest[i].attrs)>> \o AllElements(forest[i].children)
    ELSE <<>>])

\* the text that only occurs inside content tags
ContentOnlyText(doc) ==
  TextSyms(doc, ClaimedContentTags, TRUE, FALSE) \ TextSyms(doc, ClaimedContentTags, FALSE, FALSE)

\* a content tag with text, inside an element that strip-all and the
\* sanitizing profiles unwrap
HasNestedContentElement(doc) ==
  \E i \in 1..Len(doc) :
    /\ doc[i].type = "element"
    /\ doc[i].name \notin ClaimedMarkdownTags \cup ClaimedContentTags
    /\ ContentOnlyText(doc[i].children) # {}

NoContentInOutput(t, doc) ==
  /\ \A k \in 1..Len(StartTags(OutTokens(t))) :
        StartTags(OutTokens(t))[k].name \notin ClaimedContentTags
  /\ ContentOnlyText(doc) \cap Range(TextOf(OutTokens(t))) = {}

C2_AllowlistClosure ==
  \A t \in Threads :
    Done(t) =>
      LET tags == StartTags(OutTokens(t))
      IN  /\ fn[t] = "sanitize_federation" =>
               \A k \in 1..Len(tags) : tags[k].name \in ClaimedFederationTags
          /\ fn[t] = "sanitize_markdown" =>
               \A k \in 1..Len(tags) : tags[k].name \in ClaimedMarkdownTags
          /\ fn[t] = "strip_tags" =>
               \A i \in 1..(Len(ret[t]) - 1) :
                 ret[t][i] = "<" => ret[t][i + 1] \notin AlphaWords

\* strip_tags has returned a text whose "<" came as a character reference
\* and is followed by a letter
C2_Witness ==
  \E t \in Threads :
    /\ Done(t)
    /\ fn[t] = "strip_tags"
    /\ html[t] = <<"<", "div", ">", "&", "lt", ";", "x">>
    /\ ret[t] = <<"&", "lt", ";", "x">>

\* C7 as stated: passing the result of an entry point to the same entry
\* point again returns it unchanged.
C7_Idempotence ==
  \A t \in Threads : (Done(t) /\ pass[t] >= 2) => ret[t] = html[t]

\* the profile of a call
BuilderOf(f) ==
  IF f = "sanitize_federation" THEN FederationBuilder
  ELSE IF f = "sanitize_markdown" THEN MarkdownBuilder
  ELSE StripBuilder

\* C8: the text of the filtered tree is written escaped: the returned string
\* parses back to exactly the elements and attributes of the filtered tree,
\* and to its text, and to no comment.
C8_Escaping ==
  \A t \in Threads :
    Done(t) =>
      LET tree == CleanForest(BuilderOf(fn[t]), LANGUAGE_CLASS_RE.value, Parse(html[t]))
          toks == OutTokens(t)
      IN  /\ StartTags(toks) = AllElements(tree)
          /\ TextOf(toks) = AllText(tree)
          /\ \A k \in 1..Len(toks) : toks[k].type # "comment"

\* sanitize_markdown has returned the text of an unwrapped div, whose "<"
\* came as a character reference, in escaped form
C8_Witness ==
  \E t \in Threads :
    /\ Done(t)
    /\ fn[t] = "sanitize_markdown"
    /\ html[t] = <<"<", "div", ">", "&", "lt", ";", "<", "span", ">">>
    /\ ret[t] = <<"&", "lt", ";", "<", "span", ">", "<", "/", "span", ">">>


(***************************************************************************)
(* The attribute properties relate the k-th element a profile keeps of the *)
(* input to the k-th element of the output.                                *)
(***************************************************************************)
Sanitizing(t) == Done(t) /\ fn[t] \in { "sanitize_federation", "sanitize_markdown" }

ClaimedTags(f) ==
  IF f = "sanitize_federation" THEN ClaimedFederationTags ELSE ClaimedMarkdownTags

\* allowed_attributes[tag] of the two profiles
ClaimedAttributes(f, tag) ==
  IF f = "sanitize_federation"
  THEN (IF tag = "a" THEN { "href" } ELSE IF tag = "span" THEN { "class" } ELSE {})
  ELSE (IF tag = "a" THEN { "href" }
        ELSE IF tag = "code" THEN { "class" }
        ELSE IF tag = "img" THEN { "src", "alt" }
        ELSE {})

\* forced_link_rel of the two profiles
ClaimedLinkRel(f) ==
  IF f = "sanitize_federation"
  THEN <<"nofollow", " ", "noopener", " ", "noreferrer">>
  ELSE <<"nofollow", " ", "noopener">>

ClaimedSchemes(f) ==
  IF f = "sanitize_federation" THEN { "http", "https" } ELSE { "http", "https", "mailto" }

InElements(t) == Survivors(Parse(html[t]), ClaimedTags(fn[t]), ClaimedContentTags)

OutElements(t) == StartTags(OutTokens(t))

\* the output has the elements the profile keeps, in their order
SameElements(ins, outs) ==
  /\ Len(outs) = Len(ins)
  /\ \A k \in 1..Len(ins) : outs[k].name = ins[k].name

AbsoluteWithScheme(v, schemes) ==
  UrlParse(v).result = "Ok" /\ UrlParse(v).scheme \in schemes

HasNoScheme(v) == UrlParse(v).result = "RelativeUrlWithoutBase"

\* the URL policy of a profile, for the value of an href or src
UrlPolicy(f, v) ==
  \/ AbsoluteWithScheme(v, ClaimedSchemes(f))
  \/ f = "sanitize_markdown" /\ HasNoScheme(v)

\* C3: an href or src of the output is an attribute of the input with the
\* same value, and that value is an absolute URL with a scheme of the
\* profile (http, https; for Markdown also mailto) or, for Markdown only, a
\* value without a scheme; Markdown keeps such a relative value unchanged.
\* The element and its text stay when its href is dropped.
C3_UrlPolicy ==
  \A t \in Threads :
    Sanitizing(t) =>
      LET ins == InElements(t)
          outs == OutElements(t)
      IN  /\ SameElements(ins, outs)
          /\ \A k \in 1..Len(ins), n \in { "href", "src" } :
               /\ HasAttr(outs[k].attrs, n) =>
                    /\ HasAttr(ins[k].attrs, n)
                    /\ AttrValue(outs[k].attrs, n) = AttrValue(ins[k].attrs, n)
                    /\ UrlPolicy(fn[t], AttrValue(outs[k].attrs, n))
               /\ ( /\ fn[t] = "sanitize_markdown"
                    /\ n \in ClaimedAttributes(fn[t], ins[k].name)
                    /\ HasAttr(ins[k].attrs, n)
                    /\ HasNoScheme(AttrValue(ins[k].attrs, n)) ) =>
                    /\ HasAttr(outs[k].attrs, n)
                    /\ AttrValue(outs[k].attrs, n) = AttrValue(ins[k].attrs, n)

\* sanitize_federation has dropped a javascript: href and kept the a element
\* and its text
C3_Witness ==
  \E t \in Threads :
    /\ Done(t)
    /\ fn[t] = "sanitize_federation"
    /\ html[t] = WriteElement("a", << <<"href", <<"javascript", ":", "x">> >> >>)
    /\ Len(OutElements(t)) = 1
    /\ OutElements(t)[1].name = "a"
    /\ ~HasAttr(OutElements(t)[1].attrs, "href")
    /\ TextOf(OutTokens(t)) = <<"x">>

\* C4 as stated: every attribute of an element of the output has a name in
\* allowed_attributes[tag] of the profile (Federation a: href, span: class;
\* Markdown a: href, code: class, img: src, alt).  The rel that the profile
\* forces on a, which the specification sets after the allowlist, is not
\* counted against the claim.
C4_AttributeAllowlist ==
  \A t \in Threads :
    Sanitizing(t) =>
      \A k \in 1..Len(OutElements(t)) :
        LET e == OutElements(t)[k]
        IN  \A i \in 1..Len(e.attrs) :
              \/ e.attrs[i].name \in ClaimedAttributes(fn[t], e.name)
              \/ e.name = "a" /\ e.attrs[i] = Attr("rel", ClaimedLinkRel(fn[t]))

\* whether v is "language-" followed by one or more symbols of chars
ClaimedLanguageClass(v, chars) ==
  /\ Len(v) >= 3
  /\ v[1] = "language"
  /\ v[2] = "-"
  /\ \A i \in 3..Len(v) : v[i] \in chars

\* the class of a code element is kept, unchanged, exactly if its value is
\* "language-" followed by symbols of chars
CodeClassKeptIff(chars) ==
  \A t \in Threads :
    (Done(t) /\ fn[t] = "sanitize_markdown") =>
      LET ins == InElements(t)
          outs == OutElements(t)
      IN  /\ SameElements(ins, outs)
          /\ \A k \in 1..Len(ins) :
               (ins[k].name = "code" /\ HasAttr(ins[k].attrs, "class")) =>
                 LET v == AttrValue(ins[k].attrs, "class")
                 IN  IF ClaimedLanguageClass(v, chars)
                     THEN /\ HasAttr(outs[k].attrs, "class")
                          /\ AttrValue(outs[k].attrs, "class") = v
                     ELSE ~HasAttr(outs[k].attrs, "class")

\* C5 as stated: sanitize_markdown keeps the class of a code element,
\* unchanged, if and only if the whole value is "language-" followed by one
\* or more letters, digits, underscores or hyphens.
C5_LanguageClassAsStated == CodeClassKeptIff(Words \cup { "_", "-" })

\* C5, amended: sanitize_markdown keeps the class of a code element,
\* unchanged, if and only if the whole value is "language-" followed by one
\* or more letters, digits, underscores, plus signs or hyphens.
C5_LanguageClass == CodeClassKeptIff(Words \cup { "_", "+", "-" })

\* sanitize_markdown has kept class="language-c++" on a code element
C5_Witness ==
  \E t \in Threads :
    /\ Done(t)
    /\ fn[t] = "sanitize_markdown"
    /\ html[t] = WriteElement("code", << <<"class", <<"language", "-", "c", "+", "+">> >> >>)
    /\ Len(OutElements(t)) = 1
    /\ OutElements(t)[1].attrs = << Attr("class", <<"language", "-", "c", "+", "+">>) >>

ClaimedSafeClasses ==
  { <<"h", "-", "card">>, <<"hashtag">>, <<"mention">>, <<"invisible">> }

\* the tokens of v: its maximal runs without white space, as index pairs
Runs(v) ==
  { r \in (1..Len(v)) \X (1..Len(v)) :
      /\ r[1] <= r[2]
      /\ \A i \in r[1]..r[2] : v[i] # " "
      /\ (r[1] = 1 \/ v[r[1] - 1] = " ")
      /\ (r[2] = Len(v) \/ v[r[2] + 1] = " ") }

SafeRuns(v) == { r \in Runs(v) : SubSeq(v, r[1], r[2]) \in ClaimedSafeClasses }

\* the runs in their order, with one space between them
RECURSIVE JoinRuns(_, _)
JoinRuns(v, runs) ==
  IF runs = {} THEN <<>>
  ELSE LET first == CHOOSE r \in runs : \A q \in runs : r[1] <= q[1]
           rest == runs \ { first }
       IN  SubSeq(v, first[1], first[2]) \o
           (IF rest = {} THEN <<>> ELSE <<" ">> \o JoinRuns(v, rest))

\* C6: in sanitize_federation's output the class of a span is the safe
\* tokens (h-card, hashtag, mention, invisible) of the input's class, in
\* their order and with their repetitions, joined by one space; it is absent
\* when no token is safe; and no element other than span has a class.
C6_SpanClass ==
  \A t \in Threads :
    (Done(t) /\ fn[t] = "sanitize_federation") =>
      LET ins == InElements(t)
          outs == OutElements(t)
      IN  /\ SameElements(ins, outs)
          /\ \A k \in 1..Len(ins) :
               /\ HasAttr(outs[k].attrs, "class") =>
                    outs[k].name = "span" /\ HasAttr(ins[k].attrs, "class")
               /\ (ins[k].name = "span" /\ HasAttr(ins[k].attrs, "class")) =>
                    LET v == AttrValue(ins[k].attrs, "class")
                    IN  IF SafeRuns(v) = {} THEN ~HasAttr(outs[k].attrs, "class")
                        ELSE /\ HasAttr(outs[k].attrs, "class")
                             /\ AttrValue(outs[k].attrs, "class") = JoinRuns(v, SafeRuns(v))

\* sanitize_federation has reduced class="hashtag evil" on a span to
\* class="hashtag"
C6_Witness ==
  \E t \in Threads :
    /\ Done(t)
    /\ fn[t] = "sanitize_federation"
    /\ html[t] = WriteElement("span", << <<"class", <<"hashtag", " ", "evil">> >> >>)
    /\ OutElements(t) = << StartTag("span", << Attr("class", <<"hashtag">>) >>) >>

\* what the profile's attribute filter returns for an attribute
FilterVerdict(t, tag, at) ==
  ApplyAttributeFilter(BuilderOf(fn[t]), LANGUAGE_CLASS_RE.value, tag, at.name, at.value)

\* C9 as stated: the filter is consulted first for each attribute of a kept
\* element; the attribute is dropped if it returns no value, and kept with
\* the returned value, the allowlist and URL checks skipped, if it returns
\* one.
C9_FilterFirst ==
  \A t \in Threads :
    Sanitizing(t) =>
      LET ins == InElements(t)
          outs == OutElements(t)
      IN  /\ SameElements(ins, outs)
          /\ \A k \in 1..Len(ins) :
               \A i \in 1..Len(ins[k].attrs) :
                 LET at == ins[k].attrs[i]
                     r == FilterVerdict(t, ins[k].name, at)
                 IN  IF r.some
                     THEN /\ HasAttr(outs[k].attrs, at.name)
                          /\ AttrValue(outs[k].attrs, at.name) = r.value
                     ELSE ~HasAttr(outs[k].attrs, at.name)

\* the allowlist and URL checks of a profile: the attributes of the tag,
\* and lang and title on every tag
PassesBaseChecks(f, tag, at) ==
  /\ at.name \in ClaimedAttributes(f, tag) \cup { "lang", "title" }
  /\ at.name \in { "href", "src" } => UrlPolicy(f, at.value)

\* C9, amended: for each attribute of a kept element the allowlist and the
\* URL-scheme check come first, and an attribute that fails them is dropped
\* whatever the filter would return; the filter is consulted for the
\* attributes that pass, and for the forced rel of an a element: no value
\* drops the attribute, a returned value is its final value.
C9_FilterAfterAllowlist ==
  \A t \in Threads :
    Sanitizing(t) =>
      LET ins == InElements(t)
          outs == OutElements(t)
      IN  /\ SameElements(ins, outs)
          /\ \A k \in 1..Len(ins) :
               /\ \A i \in 1..Len(ins[k].attrs) :
                    LET at == ins[k].attrs[i]
                        r == FilterVerdict(t, ins[k].name, at)
                    IN  IF PassesBaseChecks(fn[t], ins[k].name, at) /\ r.some
                        THEN /\ HasAttr(outs[k].attrs, at.name)
                             /\ AttrValue(outs[k].attrs, at.name) = r.value
                        ELSE \/ ~HasAttr(outs[k].attrs, at.name)
                             \/ ins[k].name = "a" /\ at.name = "rel"
               /\ ins[k].name = "a" =>
                    /\ HasAttr(outs[k].attrs, "rel")
                    /\ AttrValue(outs[k].attrs, "rel") =
                         FilterVerdict(t, "a", Attr("rel", ClaimedLinkRel(fn[t]))).value
               /\ \A i \in 1..Len(outs[k].attrs) :
                    \/ HasAttr(ins[k].attrs, outs[k].attrs[i].name)
                    \/ ins[k].name = "a" /\ outs[k].attrs[i].name = "rel"

\* sanitize_federation has dropped an id from a span, although its filter
\* returns the value of an id unchanged
C9_Witness ==
  \E t \in Threads :
    /\ Done(t)
    /\ fn[t] = "sanitize_federation"
    /\ html[t] = WriteElement("span", << <<"id", <<"x">> >> >>)
    /\ FilterVerdict(t, "span", Attr("id", <<"x">>)) = Some(<<"x">>)
    /\ OutElements(t) = << StartTag("span", <<>>) >>


(***************************************************************************)
(* Concurrent callers and the OnceLock.                                    *)
(***************************************************************************)
\* what entry point f returns for s in a process with no other caller
ResultAlone(f, s) == Result(f, LanguageClassPattern, s)

OnceLockInvariant ==
  /\ inits <= 1
  /\ LANGUAGE_CLASS_RE.state = "init" =>
       inits = 1 /\ LANGUAGE_CLASS_RE.value = LanguageClassPattern
  /\ LANGUAGE_CLASS_RE.state # "init" =>
       inits = 0 /\ LANGUAGE_CLASS_RE.value = NoPattern
  /\ \A t \in Threads :
       (pc[t] = "clean" /\ fn[t] = "sanitize_markdown") => LANGUAGE_CLASS_RE.state = "init"
  /\ \A t \in Threads : Done(t) => ret[t] = ResultAlone(fn[t], html[t])

\* C10: in every interleaving of the callers the pattern is initialised at
\* most once and never changes once it is initialised, a caller that uses
\* it finds it initialised, and every call returns what it returns alone.
C10_OnceLock ==
  /\ []OnceLockInvariant
  /\ [][LANGUAGE_CLASS_RE.state = "init" => LANGUAGE_CLASS_RE' = LANGUAGE_CLASS_RE]_vars

\* two callers of sanitize_markdown have both returned, a class kept by
\* the pattern in one result, after one initialisation
C10_Witness ==
  /\ inits = 1
  /\ \A t \in { 1, 2 } :
       /\ Done(t)
       /\ fn[t] = "sanitize_markdown"
       /\ html[t] = <<"<", "code", " ", "class", "=", "language", "-", "rust", ">", "x">>
       /\ HasAttr(OutElements(t)[1].attrs, "class")

=============================================================================
